---- MODULE Spec2Model ----
(***************************************************************************)
(* A model of smart-book-gist: the trust-bundle setup script               *)
(* (scripts/setup_certs.py), the API client (src/groq_client.py), the      *)
(* response processor (src/processor.py), the CLI entry point              *)
(* (src/main.py) and the HTTP front-end (src/webapp.py).                   *)
(*                                                                         *)
(* Text is modelled as a sequence of tokens.  In the environment file a    *)
(* token is a key name, a value, or one of the characters the merge looks  *)
(* at (space, '#', '=', newline); no other token contains one of those     *)
(* characters, so strip/split/splitlines act on tokens as they act on the  *)
(* characters of the concatenated string.  Everywhere else a token is one  *)
(* character or one byte.                                                  *)
(***************************************************************************)
EXTENDS Integers, Sequences, FiniteSets, TLC

VARIABLES
    env,        \* the environment file (.env)
    bak,        \* its backup (.env.bak)
    envLog,     \* the files and the argument after each update_env_file, the initial ones first
    fs,         \* the files write_combined_bundle reads and writes, by path
    fs0,        \* those files before the call
    out_path,   \* write_combined_bundle's out_path
    outbuf,     \* the bytes written to `out` and not yet flushed to the file
    bufsize,    \* the buffer size of `out`
    wpc,        \* where write_combined_bundle is
    net,        \* how the remote API answers the next POST
    posted,     \* the payloads POSTed so far
    result,     \* what send_chat returned or raised
    call,       \* the arguments of a direct call of send_chat
    args,       \* the command line of main()
    promptFile, \* the file --file names
    prompt,     \* main's prompt
    outFile,    \* the output file of process_and_save
    canWrite,   \* whether the output path can be written
    stdout,     \* the lines main() and process_and_save have written
    stderr,     \* the lines argparse and the interpreter have written to standard error
    exitStatus, \* the exit status of the CLI process, -1 while it runs
    cpc,        \* where main() is
    webBody,    \* the JSON body of the POST /summarize request (null when there is none)
    webResp,    \* the HTTP response of the front-end
    choiceArg,  \* the argument of summarize_choice
    preview     \* what summarize_choice returned or raised

envVars == <<env, bak, envLog>>

bundleVars == <<fs, fs0, out_path, outbuf, bufsize, wpc>>

apiVars == <<net, posted, result, call>>

cliVars == <<args, promptFile, prompt, outFile, canWrite, stdout, stderr, exitStatus, cpc>>

webVars == <<webBody, webResp>>

choiceVars == <<choiceArg, preview>>

vars == <<envVars, bundleVars, apiVars, cliVars, webVars, choiceVars>>

(***************************************************************************)
(* Bounds of the model.                                                    *)
(***************************************************************************)
MaxLines == 3
MaxRuns == 2
MaxBytes == 2
MaxBuf == 3
MaxExtra == 2

(***************************************************************************)
(* Generic helpers.                                                        *)
(***************************************************************************)
\* the elements of s that satisfy P, in order
Filter(s, P(_)) ==
    LET F[i \in 0..Len(s)] ==
            IF i = 0 THEN <<>> ELSE IF P(s[i]) THEN Append(F[i - 1], s[i]) ELSE F[i - 1]
    IN  F[Len(s)]

Contains(s, x) == \E i \in 1..Len(s) : s[i] = x

\* index of the first x in s, 0 when there is none
IndexOf(s, x) == IF Contains(s, x) THEN CHOOSE i \in 1..Len(s) : s[i] = x /\ \A j \in 1..(i - 1) : s[j] # x
                 ELSE 0

(***************************************************************************)
(* scripts/setup_certs.py: the environment file.                           *)
(***************************************************************************)
NL == "\n"
EQ == "="
HASH == "#"
SP == " "

\* a file: exists or not, and its content as a token sequence
Absent == [exists |-> FALSE, data |-> <<>>]
File(d) == [exists |-> TRUE, data |-> d]

\* keys_to_set.keys(), in the dict's insertion order
ManagedKeys == <<"SSL_CERT_FILE", "REQUESTS_CA_BUNDLE">>

IsManaged(k) == k = <<"SSL_CERT_FILE">> \/ k = <<"REQUESTS_CA_BUNDLE">>

\* str.strip(): leading and trailing whitespace removed
RECURSIVE LStrip(_)
LStrip(s) == IF s # <<>> /\ Head(s) \in {SP, NL} THEN LStrip(Tail(s)) ELSE s

RECURSIVE RStrip(_)
RStrip(s) == IF s # <<>> /\ s[Len(s)] \in {SP, NL} THEN RStrip(SubSeq(s, 1, Len(s) - 1)) ELSE s

Strip(s) == RStrip(LStrip(s))

\* str.splitlines(): no empty last line after a final newline
RECURSIVE SplitLines(_)
SplitLines(s) ==
    IF s = <<>> THEN <<>>
    ELSE LET i == IndexOf(s, NL) IN
         IF i = 0 THEN <<s>>
         ELSE <<SubSeq(s, 1, i - 1)>> \o SplitLines(SubSeq(s, i + 1, Len(s)))

\* "\n".join(lines)
RECURSIVE JoinNL(_)
JoinNL(lines) ==
    IF lines = <<>> THEN <<>>
    ELSE IF Len(lines) = 1 THEN lines[1]
    ELSE lines[1] \o <<NL>> \o JoinNL(Tail(lines))

\* line.split("=", 1)[0], for a line that contains "="
KeyPart(line) == SubSeq(line, 1, IndexOf(line, EQ) - 1)

\* line.split("=", 1)[1]
ValuePart(line) == SubSeq(line, IndexOf(line, EQ) + 1, Len(line))

\* the test of line 78: blank, comment or malformed lines are passed through
PassedThrough(line) ==
    LET stripped == Strip(line) IN
    stripped = <<>> \/ Head(stripped) = HASH \/ ~Contains(line, EQ)

\* a loop body that replaces only the first occurrence of a managed key
MergedLineFirstOnly(line, path, found) ==
    IF PassedThrough(line) THEN line
    ELSE LET k_name == Strip(KeyPart(line)) IN
         IF IsManaged(k_name) /\ k_name[1] \notin found THEN k_name \o <<EQ, path>> ELSE line

\* the body of the loop of lines 76-91 for one line: the line appended to new_lines
MergedLine(line, path, found) ==
    IF PassedThrough(line) THEN line
    ELSE LET k_name == Strip(KeyPart(line)) IN
         IF IsManaged(k_name) THEN k_name \o <<EQ, path>> ELSE line

\* found.add(k_name) of line 88
FoundAfter(line, found) ==
    IF PassedThrough(line) THEN found
    ELSE LET k_name == Strip(KeyPart(line)) IN
         IF IsManaged(k_name) THEN found \cup {k_name[1]} ELSE found

RECURSIVE MergeLoop(_, _, _, _)
\* the loop of lines 76-91 from line i on: [new_lines, found]
MergeLoop(lines, i, path, acc) ==
    IF i > Len(lines) THEN acc
    ELSE MergeLoop(lines, i + 1, path,
                   [new_lines |-> Append(acc.new_lines, MergedLine(lines[i], path, acc.found)),
                    found |-> FoundAfter(lines[i], acc.found)])

\* lines 94-96: the missing keys appended in the dict's order
AppendMissing(new_lines, found, path) ==
    new_lines
      \o (IF ManagedKeys[1] \notin found THEN << <<ManagedKeys[1], EQ, path>> >> ELSE <<>>)
      \o (IF ManagedKeys[2] \notin found THEN << <<ManagedKeys[2], EQ, path>> >> ELSE <<>>)

\* lines 68-98: the new content of the environment file
MergedContent(e, path) ==
    LET original_lines == IF e.exists THEN SplitLines(e.data) ELSE <<>>
        r == MergeLoop(original_lines, 1, path, [new_lines |-> <<>>, found |-> {}])
    IN  JoinNL(AppendMissing(r.new_lines, r.found, path)) \o <<NL>>

\* a backup that is refreshed by every update
BackupEnvAlways(e, b) == IF e.exists THEN e ELSE b

\* backup_env: the backup file after the call

BackupEnv(e, b) == IF e.exists /\ ~b.exists THEN e ELSE b

(***************************************************************************)
(* scripts/setup_certs.py: write_combined_bundle.  A file's content is a   *)
(* sequence of bytes.  `out` is a buffered writer: the bytes it is given   *)
(* reach the file when its buffer overflows or when it is closed, and the  *)
(* two readers read the files as they are when read() is called.           *)
(***************************************************************************)
CERTIFI == "certifi"      \* certifi.where()
ZSCALER == "zscaler"      \* zscaler_path
OUT == "out"              \* a path that is neither of them

FilePaths == {CERTIFI, ZSCALER, OUT}

\* open(out_path, "wb"): the file is created or truncated
OpenForWrite(files, path) == [files EXCEPT ![path] = File(<<>>)]

\* cf.read() / zf.read(): the file's bytes at the time of the call
ReadAll(files, path) == files[path].data

\* out.write(data) on the buffered writer: [file bytes, buffer] after the call
BufferedWrite(written, buf, data, size) ==
    IF Len(data) <= size - Len(buf) THEN [written |-> written, buf |-> buf \o data]
    ELSE IF Len(data) > size THEN [written |-> written \o buf \o data, buf |-> <<>>]
    ELSE [written |-> written \o buf, buf |-> data]

(***************************************************************************)
(* JSON.  A character string is a sequence of one-character strings.  A    *)
(* JSON document is a tagged record; an object keeps its members in        *)
(* insertion order, as a Python dict does.  The strings of the model hold  *)
(* ASCII letters, digits and spaces only, which json.dumps writes as they  *)
(* are.                                                                    *)
(***************************************************************************)
NULL_TEXT == <<"n", "u", "l", "l">>
TRUE_TEXT == <<"t", "r", "u", "e">>
FALSE_TEXT == <<"f", "a", "l", "s", "e">>

JNull == [t |-> "null"]
JBool(b) == [t |-> "bool", b |-> b]
JNum(n) == [t |-> "num", n |-> n]
JStr(s) == [t |-> "str", s |-> s]
JArr(a) == [t |-> "arr", a |-> a]
JObj(o) == [t |-> "obj", o |-> o]
Member(k, v) == [k |-> k, v |-> v]

IsDict(v) == v.t = "obj"
IsList(v) == v.t = "arr"
IsStr(v) == v.t = "str"

\* key in d, for a dict d
HasKey(d, k) == \E i \in 1..Len(d.o) : d.o[i].k = k

\* d.get(k, default), for a dict d
Get(d, k, default) ==
    IF HasKey(d, k) THEN d.o[CHOOSE i \in 1..Len(d.o) : d.o[i].k = k].v ELSE default

\* d[k] = v, for a dict d: a new key goes last, an old one keeps its place
SetKey(d, k, v) ==
    IF HasKey(d, k)
    THEN JObj([i \in 1..Len(d.o) |-> IF d.o[i].k = k THEN Member(k, v) ELSE d.o[i]])
    ELSE JObj(Append(d.o, Member(k, v)))

\* bool(v): Python's truth value of a parsed JSON value
Truthy(v) ==
    CASE v.t = "null" -> FALSE
      [] v.t = "bool" -> v.b
      [] v.t = "num" -> v.n # 0
      [] v.t = "str" -> v.s # <<>>
      [] v.t = "arr" -> v.a # <<>>
      [] v.t = "obj" -> v.o # <<>>

DigitChars == <<"0", "1", "2", "3", "4", "5", "6", "7", "8", "9">>

IsDigit(c) == \E i \in 1..10 : DigitChars[i] = c

DigitValue(c) == (CHOOSE i \in 1..10 : DigitChars[i] = c) - 1

RECURSIVE Digits(_)
\* str(n) for n >= 0
Digits(n) == IF n < 10 THEN <<DigitChars[n + 1]>> ELSE Digits(n \div 10) \o <<DigitChars[(n % 10) + 1]>>

RECURSIVE Spaces(_)
Spaces(n) == IF n <= 0 THEN <<>> ELSE <<" ">> \o Spaces(n - 1)

Quoted(s) == <<"\"">> \o s \o <<"\"">>

RECURSIVE Dumps(_, _, _)
\* json.dumps(v) when indent < 0 (separators ", " and ": "), and
\* json.dumps(v, indent=indent) otherwise (separators "," and ": ", one item a
\* line); level is the nesting depth of v
Dumps(v, indent, level) ==
    LET pretty == indent >= 0
        open == IF pretty THEN <<NL>> \o Spaces(indent * (level + 1)) ELSE <<>>
        sep == IF pretty THEN <<",", NL>> \o Spaces(indent * (level + 1)) ELSE <<",", " ">>
        close == IF pretty THEN <<NL>> \o Spaces(indent * level) ELSE <<>>
        item(x) == IF v.t = "arr" THEN Dumps(x, indent, level + 1)
                   ELSE Quoted(x.k) \o <<":", " ">> \o Dumps(x.v, indent, level + 1)
        items == IF v.t = "arr" THEN v.a ELSE v.o
        Joined[i \in 0..Len(items)] ==
            IF i = 0 THEN <<>>
            ELSE IF i = 1 THEN item(items[1])
            ELSE Joined[i - 1] \o sep \o item(items[i])
    IN  CASE v.t = "null" -> NULL_TEXT
          [] v.t = "bool" -> IF v.b THEN TRUE_TEXT ELSE FALSE_TEXT
          [] v.t = "num" -> Digits(v.n)
          [] v.t = "str" -> Quoted(v.s)
          [] v.t = "arr" -> IF v.a = <<>> THEN <<"[", "]">>
                            ELSE <<"[">> \o open \o Joined[Len(items)] \o close \o <<"]">>
          [] v.t = "obj" -> IF v.o = <<>> THEN <<"{", "}">>
                            ELSE <<"{">> \o open \o Joined[Len(items)] \o close \o <<"}">>

\* json.dumps(v)
DumpsCompact(v) == Dumps(v, -1, 0)

\* json.dumps(v, indent=2, ensure_ascii=False)
DumpsIndent(v) == Dumps(v, 2, 0)

(***************************************************************************)
(* json.loads / Response.json(): a recursive-descent parser.  A result is  *)
(* [ok |-> TRUE, v, pos] (pos: the index after the value) or               *)
(* [ok |-> FALSE, why, at] (at: the 0-based character position json        *)
(* reports).                                                               *)
(***************************************************************************)
Parsed(v, pos) == [ok |-> TRUE, v |-> v, pos |-> pos]
ParseError(why, i) == [ok |-> FALSE, why |-> why, at |-> i - 1]

IsWs(c) == c \in {" ", NL, "\t", "\r"}

RECURSIVE SkipWs(_, _)
SkipWs(s, i) == IF i <= Len(s) /\ IsWs(s[i]) THEN SkipWs(s, i + 1) ELSE i

StartsWith(s, i, word) == i + Len(word) - 1 <= Len(s) /\ SubSeq(s, i, i + Len(word) - 1) = word

\* the string whose opening quote is at i - 1
ParseString(s, i) ==
    LET ends == {j \in i..Len(s) : s[j] = "\"" \/ s[j] = NL} IN
    IF ends = {} THEN ParseError("Unterminated string starting at", i - 1)
    ELSE LET j == CHOOSE x \in ends : \A y \in ends : x <= y IN
         IF s[j] = NL THEN ParseError("Invalid control character at", j)
         ELSE Parsed(JStr(SubSeq(s, i, j - 1)), j + 1)

RECURSIVE NumberEnd(_, _)
NumberEnd(s, i) == IF i <= Len(s) /\ IsDigit(s[i]) THEN NumberEnd(s, i + 1) ELSE i

RECURSIVE NumberValue(_)
NumberValue(ds) == IF ds = <<>> THEN 0 ELSE NumberValue(SubSeq(ds, 1, Len(ds) - 1)) * 10 + DigitValue(ds[Len(ds)])

\* the number that starts at i: "0", or digits that start with 1-9
ParseNumber(s, i) ==
    LET j == IF s[i] = "0" THEN i + 1 ELSE NumberEnd(s, i) IN
    Parsed(JNum(NumberValue(SubSeq(s, i, j - 1))), j)

RECURSIVE ParseValue(_, _)
RECURSIVE ParseItems(_, _, _)
RECURSIVE ParseMembers(_, _, _)

\* an array after its item r has been parsed: "]", or "," and the next item
ItemsAfter(s, acc, r) ==
    IF ~r.ok THEN r
    ELSE IF SkipWs(s, r.pos) <= Len(s) /\ s[SkipWs(s, r.pos)] = "]"
         THEN Parsed(JArr(Append(acc, r.v)), SkipWs(s, r.pos) + 1)
    ELSE IF SkipWs(s, r.pos) <= Len(s) /\ s[SkipWs(s, r.pos)] = ","
         THEN ParseItems(s, SkipWs(s, SkipWs(s, r.pos) + 1), Append(acc, r.v))
    ELSE ParseError("Expecting ',' delimiter", SkipWs(s, r.pos))

\* the items of an array from i on, acc being those parsed so far
ParseItems(s, i, acc) == ItemsAfter(s, acc, ParseValue(s, i))

\* an object after the value r of its member `key` has been parsed
MembersAfterValue(s, acc, key, r) ==
    IF ~r.ok THEN r
    ELSE IF SkipWs(s, r.pos) <= Len(s) /\ s[SkipWs(s, r.pos)] = "}"
         THEN Parsed(SetKey(acc, key, r.v), SkipWs(s, r.pos) + 1)
    ELSE IF SkipWs(s, r.pos) <= Len(s) /\ s[SkipWs(s, r.pos)] = ","
         THEN ParseMembers(s, SkipWs(s, SkipWs(s, r.pos) + 1), SetKey(acc, key, r.v))
    ELSE ParseError("Expecting ',' delimiter", SkipWs(s, r.pos))

\* an object after the name of a member has been parsed: ":" and the value
MembersAfterKey(s, acc, key) ==
    IF ~key.ok THEN key
    ELSE IF SkipWs(s, key.pos) > Len(s) \/ s[SkipWs(s, key.pos)] # ":"
         THEN ParseError("Expecting ':' delimiter", SkipWs(s, key.pos))
    ELSE MembersAfterValue(s, acc, key.v.s, ParseValue(s, SkipWs(s, SkipWs(s, key.pos) + 1)))

\* the members of an object from i on, acc being the dict built so far
ParseMembers(s, i, acc) ==
    IF i > Len(s) \/ s[i] # "\""
    THEN ParseError("Expecting property name enclosed in double quotes", i)
    ELSE MembersAfterKey(s, acc, ParseString(s, i + 1))

\* the value that starts at i
ParseValue(s, i) ==
    IF i > Len(s) THEN ParseError("Expecting value", i)
    ELSE CASE s[i] = "\"" -> ParseString(s, i + 1)
           [] s[i] = "{" ->
                IF SkipWs(s, i + 1) <= Len(s) /\ s[SkipWs(s, i + 1)] = "}"
                THEN Parsed(JObj(<<>>), SkipWs(s, i + 1) + 1)
                ELSE ParseMembers(s, SkipWs(s, i + 1), JObj(<<>>))
           [] s[i] = "[" ->
                IF SkipWs(s, i + 1) <= Len(s) /\ s[SkipWs(s, i + 1)] = "]"
                THEN Parsed(JArr(<<>>), SkipWs(s, i + 1) + 1)
                ELSE ParseItems(s, SkipWs(s, i + 1), <<>>)
           [] StartsWith(s, i, NULL_TEXT) -> Parsed(JNull, i + 4)
           [] StartsWith(s, i, TRUE_TEXT) -> Parsed(JBool(TRUE), i + 4)
           [] StartsWith(s, i, FALSE_TEXT) -> Parsed(JBool(FALSE), i + 5)
           [] IsDigit(s[i]) -> ParseNumber(s, i)
           [] OTHER -> ParseError("Expecting value", i)

\* the end of the document after its value r: nothing but whitespace may follow
LoadsEnd(s, r) ==
    IF ~r.ok THEN r
    ELSE IF SkipWs(s, r.pos) <= Len(s) THEN ParseError("Extra data", SkipWs(s, r.pos))
    ELSE r

\* json.loads(s)
Loads(s) == LoadsEnd(s, ParseValue(s, SkipWs(s, 1)))

(***************************************************************************)
(* src/processor.py.  A call either returns a value or raises.             *)
(***************************************************************************)
Returned(v) == [raised |-> FALSE, v |-> v]
Raised(exc) == [raised |-> TRUE, exc |-> exc]

K_choices == <<"c", "h", "o", "i", "c", "e", "s">>
K_message == <<"m", "e", "s", "s", "a", "g", "e">>
K_content == <<"c", "o", "n", "t", "e", "n", "t">>
K_text == <<"t", "e", "x", "t">>
K_usage == <<"u", "s", "a", "g", "e">>
K_output == <<"o", "u", "t", "p", "u", "t">>
K_index == <<"i", "n", "d", "e", "x">>
K_data == <<"d", "a", "t", "a">>
K_outputs == <<"o", "u", "t", "p", "u", "t", "s">>

PREVIEW_LIMIT == 400
\* the one character U+2026
ELLIPSIS == "U+2026"

\* s[:n]
Prefix(s, n) == SubSeq(s, 1, IF Len(s) < n THEN Len(s) ELSE n)

\* needle in s, for two strings
IsSubstring(needle, s) ==
    \E i \in 1..(Len(s) - Len(needle) + 1) : SubSeq(s, i, i + Len(needle) - 1) = needle

\* key in v, for any parsed JSON value v: "yes", "no", or "TypeError" when v is
\* not a container
InTest(key, v) ==
    CASE v.t = "obj" -> IF HasKey(v, key) THEN "yes" ELSE "no"
      [] v.t = "arr" -> IF \E i \in 1..Len(v.a) : v.a[i] = JStr(key) THEN "yes" ELSE "no"
      [] v.t = "str" -> IF IsSubstring(key, v.s) THEN "yes" ELSE "no"
      [] OTHER -> "TypeError"

\* len(v): -1 stands for the TypeError of a value that has no length
PyLen(v) ==
    CASE v.t = "str" -> Len(v.s)
      [] v.t = "arr" -> Len(v.a)
      [] v.t = "obj" -> Len(v.o)
      [] OTHER -> -1

\* line 19: content if len(content) <= 400 else content[:400] + ELLIPSIS
Truncate(content) ==
    IF PyLen(content) < 0 THEN Raised("TypeError")
    ELSE IF PyLen(content) <= PREVIEW_LIMIT THEN Returned(content)
    ELSE IF content.t = "str" THEN Returned(JStr(Prefix(content.s, PREVIEW_LIMIT) \o <<ELLIPSIS>>))
    ELSE Raised("TypeError")

\* lines 11-18: the content the preview is cut from, or the exception raised
ChoiceContent(choice) ==
    LET hasMessage == InTest(K_message, choice) IN
    IF hasMessage = "TypeError" THEN Raised("TypeError")
    ELSE IF hasMessage = "yes" /\ ~IsDict(choice) THEN Raised("TypeError")       \* choice["message"]
    ELSE IF hasMessage = "yes" /\ IsDict(Get(choice, K_message, JNull))
         THEN Returned(Get(Get(choice, K_message, JNull), K_content, JStr(<<>>)))
    ELSE IF InTest(K_text, choice) = "yes"
         THEN IF IsDict(choice) THEN Returned(Get(choice, K_text, JStr(<<>>)))
              ELSE Raised("AttributeError")                                      \* choice.get
    ELSE Returned(JStr(Prefix(DumpsCompact(choice), PREVIEW_LIMIT)))

\* line 19 applied to what lines 11-18 gave
TruncateContent(c) == IF c.raised THEN c ELSE Truncate(c.v)

\* summarize_choice(choice)
SummarizeChoice(choice) == TruncateContent(ChoiceContent(choice))

\* what print() writes: one record a line
Line(what, arg) == [line |-> what, arg |-> arg]

\* the name Python gives the type of a parsed JSON value
TypeName(v) ==
    CASE v.t = "null" -> "NoneType"
      [] v.t = "bool" -> "bool"
      [] v.t = "num" -> "int"
      [] v.t = "str" -> "str"
      [] v.t = "arr" -> "list"
      [] v.t = "obj" -> "dict"

KeysOf(d) == JArr([i \in 1..Len(d.o) |-> JStr(d.o[i].k)])

RECURSIVE Previews(_, _, _)

\* lines 34-35 for choice i, r being what summarize_choice gave for it
PreviewsAfter(choices, i, acc, r) ==
    IF r.raised THEN [raised |-> TRUE, exc |-> r.exc, out |-> acc]
    ELSE Previews(choices, i + 1, Append(acc, Line("preview", r.v)))

\* the loop of lines 33-35 from choice i on: the lines written, and whether
\* summarize_choice raised
Previews(choices, i, acc) ==
    IF i > Len(choices) \/ i > 3 THEN [raised |-> FALSE, out |-> acc]
    ELSE PreviewsAfter(choices, i, acc, SummarizeChoice(choices[i]))

\* lines 38-47: the usage block and the output flags, after the lines pv
SummaryTail(response, pv) ==
    IF pv.raised THEN pv
    ELSE [raised |-> FALSE,
          out |-> pv.out
            \o (IF Truthy(Get(response, K_usage, JNull))
                THEN <<Line("usage", JStr(DumpsIndent(Get(response, K_usage, JNull))))>> ELSE <<>>)
            \o (IF HasKey(response, K_output) THEN <<Line("has output", JNull)>> ELSE <<>>)
            \o (IF HasKey(response, K_outputs)
                THEN <<Line("has outputs", IF IsList(Get(response, K_outputs, JNull))
                                           THEN JNum(Len(Get(response, K_outputs, JNull).a))
                                           ELSE JStr(<<"?">>))>>
                ELSE <<>>)]

\* lines 30-35: the choices block, after the lines `keys`
ChoicesBlock(choices, keys) ==
    IF IsList(choices)
    THEN Previews(choices.a, 1, Append(keys, Line("choices", JNum(Len(choices.a)))))
    ELSE [raised |-> FALSE, out |-> keys]

\* lines 22-47 of process_and_save: the summary written before the file is saved
Summary(response) ==
    IF ~IsDict(response)
    THEN [raised |-> TRUE, exc |-> "AttributeError",                            \* response.get
          out |-> <<Line("header", JNull), Line("not an object", JStr(<<TypeName(response)>>))>>]
    ELSE SummaryTail(response,
                     ChoicesBlock(Get(response, K_choices, JNull),
                                  <<Line("header", JNull), Line("keys", KeysOf(response))>>))

\* lines 50-56: the file is written after the summary sm
SaveAfter(response, file, writable, sm) ==
    IF sm.raised THEN [raised |-> TRUE, exc |-> sm.exc, out |-> sm.out, file |-> file]
    ELSE IF ~writable THEN [raised |-> TRUE, exc |-> "OSError", out |-> sm.out, file |-> file]
    ELSE [raised |-> FALSE,
          out |-> sm.out \o <<Line("written", JNull), Line("end", JNull)>>,
          file |-> File(DumpsIndent(response))]

\* process_and_save(response, out_path): what is written to the console, and the
\* output file after the call; writable says whether the output path can be written
ProcessAndSave(response, file, writable) == SaveAfter(response, file, writable, Summary(response))

(***************************************************************************)
(* src/groq_client.py.                                                     *)
(***************************************************************************)
K_model == <<"m", "o", "d", "e", "l">>
K_messages == <<"m", "e", "s", "s", "a", "g", "e", "s">>
K_temperature == <<"t", "e", "m", "p", "e", "r", "a", "t", "u", "r", "e">>
K_max_tokens == <<"m", "a", "x", "_", "t", "o", "k", "e", "n", "s">>
K_role == <<"r", "o", "l", "e">>
K_prompt == <<"p", "r", "o", "m", "p", "t">>
R_system == <<"s", "y", "s", "t", "e", "m">>
R_user == <<"u", "s", "e", "r">>

GROQ_MODEL == JStr(<<"o", "p", "e", "n", "a", "i", "/", "g", "p", "t", "-", "o", "s", "s", "-", "2", "0", "b">>)

\* a float, by its decimal notation
JFloat(repr) == [t |-> "float", repr |-> repr]

RaisedWith(exc, msg) == [raised |-> TRUE, exc |-> exc, msg |-> msg]

\* the reply of the remote API to a POST, or the failure to get one
Reply(status, reason, text) == [fails |-> FALSE, status |-> status, reason |-> reason, text |-> text]
NoReply == [fails |-> TRUE, status |-> 0, reason |-> <<>>, text |-> <<>>]

\* requests' Response.ok with the 2xx range only: a plausible reading of it
ResponseOk2xx(status) == 200 <= status /\ status < 300

\* requests' Response.ok: raise_for_status() raises for 400 <= status < 600 only
ResponseOk(status) == ~(400 <= status /\ status < 600)

\* lines 56-62: the JSON body of the request
Payload(messages, model, temperature, max_tokens) ==
    LET base == <<Member(K_model, IF Truthy(model) THEN model ELSE GROQ_MODEL),
                  Member(K_messages, messages),
                  Member(K_temperature, temperature)>>
    IN  JObj(IF max_tokens # JNull THEN Append(base, Member(K_max_tokens, max_tokens)) ELSE base)

\* lines 70-81: what send_chat does with the reply n, doc being resp.json()
ClassifyParsed(n, doc) ==
    IF ~ResponseOk(n.status)
    THEN RaisedWith("RuntimeError",
                    [what |-> "Groq API error",
                     detail |-> IF doc.ok THEN doc.v
                                ELSE IF n.text # <<>> THEN JStr(n.text)
                                ELSE JStr(Digits(n.status) \o <<" ">> \o n.reason)])
    ELSE IF doc.ok THEN Returned(doc.v)
    ELSE RaisedWith("RuntimeError",
                    [what |-> "Failed to parse Groq response as JSON",
                     why |-> doc.why, at |-> doc.at, raw |-> n.text])

Classify(n) == ClassifyParsed(n, Loads(n.text))

\* send_chat(messages, model, temperature, max_tokens) when the remote end
\* behaves as n: the POSTs made and what the call returns or raises
SendChat(n, messages, model, temperature, max_tokens) ==
    [posts |-> <<Payload(messages, model, temperature, max_tokens)>>,
     outcome |-> IF n.fails THEN Raised("RequestException") ELSE Classify(n)]

(***************************************************************************)
(* src/main.py.                                                            *)
(***************************************************************************)
DEFAULT_PROMPT == <<"E", "x", "p", "l", "a", "i", "n", " ", "t", "h", "e", " ", "i", "m", "p", "o", "r", "t", "a", "n", "c", "e", " ", "o", "f", " ", "f", "a", "s", "t", " ", "l", "a", "n", "g", "u", "a", "g", "e", " ", "m", "o", "d", "e", "l", "s", " ", "i", "n", " ", "3", " ", "c", "o", "n", "c", "i", "s", "e", " ", "b", "u", "l", "l", "e", "t", " ", "p", "o", "i", "n", "t", "s", ".">>
SYSTEM_PROMPT == <<"Y", "o", "u", " ", "a", "r", "e", " ", "a", " ", "c", "o", "n", "c", "i", "s", "e", ",", " ", "p", "r", "o", "f", "e", "s", "s", "i", "o", "n", "a", "l", " ", "a", "s", "s", "i", "s", "t", "a", "n", "t", ".">>

Message(role, content) == JObj(<<Member(K_role, JStr(role)), Member(K_content, content)>>)

\* build_messages(prompt)
BuildMessages(p) == JArr(<<Message(R_system, JStr(SYSTEM_PROMPT)), Message(R_user, p)>>)

\* the defaults of --temperature and --max-tokens
DEFAULT_TEMPERATURE == JFloat("0.2")
DEFAULT_MAX_TOKENS == JNum(800)

(***************************************************************************)
(* src/webapp.py.                                                          *)
(***************************************************************************)
NO_PROMPT == JStr(<<"N", "o", " ", "p", "r", "o", "m", "p", "t", " ", "p", "r", "o", "v", "i", "d", "e", "d">>)

\* choices[0].get("message", {}).get("content"), for the value of resp.get("choices", [{}])
ContentOfFirst(choices) ==
    CASE choices.t = "arr" /\ choices.a = <<>> -> Raised("IndexError")
      [] choices.t = "str" /\ choices.s = <<>> -> Raised("IndexError")
      [] choices.t = "str" -> Raised("AttributeError")              \* a str has no get
      [] choices.t = "obj" -> Raised("KeyError")                    \* choices[0]
      [] choices.t = "arr" ->
           IF ~IsDict(choices.a[1]) THEN Raised("AttributeError")
           ELSE IF ~IsDict(Get(choices.a[1], K_message, JObj(<<>>))) THEN Raised("AttributeError")
           ELSE Returned(Get(Get(choices.a[1], K_message, JObj(<<>>)), K_content, JNull))
      [] OTHER -> Raised("TypeError")                               \* not subscriptable

\* line 45 without the "or resp": resp.get("choices", [{}])[0].get("message", {}).get("content")
FirstContent(resp) ==
    IF ~IsDict(resp) THEN Raised("AttributeError")                  \* resp.get
    ELSE ContentOfFirst(Get(resp, K_choices, JArr(<<JObj(<<>>)>>)))

\* the "or resp" of line 45
OrResp(c, resp) == IF c.raised THEN c ELSE Returned(IF Truthy(c.v) THEN c.v ELSE resp)

\* line 45: the summary, or the exception the extraction raises
ExtractSummary(resp) == OrResp(FirstContent(resp), resp)

\* lines 46-52: the response, for the summary or the exception of the try block
Answer(p, summary) ==
    IF summary.raised
    THEN [status |-> 500, error |-> "Failed to call Groq API", details |-> summary]
    ELSE [status |-> 200, prompt |-> p, gist |-> summary.v]

\* lines 42-52, sent being what send_chat did
AfterSendChat(p, sent) ==
    [posts |-> sent.posts,
     outcome |-> sent.outcome,
     response |-> Answer(p, IF sent.outcome.raised THEN sent.outcome ELSE ExtractSummary(sent.outcome.v))]

\* lines 29-52, for the request body
SummarizeBody(body, n) ==
    IF ~IsDict(body)
    THEN [posts |-> <<>>,                                            \* body.get, outside the try
          response |-> [status |-> 500, unhandled |-> "AttributeError"]]
    ELSE AfterSendChat(Get(body, K_prompt, NO_PROMPT),
                       SendChat(n, BuildMessages(Get(body, K_prompt, NO_PROMPT)),
                                IF Truthy(Get(body, K_model, JNull)) THEN Get(body, K_model, JNull)
                                ELSE GROQ_MODEL,
                                Get(body, K_temperature, DEFAULT_TEMPERATURE),
                                Get(body, K_max_tokens, DEFAULT_MAX_TOKENS)))

\* summarize(): the POSTs made, what send_chat returned or raised when it was
\* called, and the HTTP response, for the request's JSON b
\* (null when the request has no JSON body) and the remote end behaving as n
Summarize(b, n) == SummarizeBody(IF Truthy(b) THEN b ELSE JObj(<<>>), n)

(***************************************************************************)
(* The inputs of the runs.                                                 *)
(***************************************************************************)
Paths == {"/certs/a.pem", "/certs/b.pem"}

LineSet ==
    { <<>>,                                            \* blank
      <<HASH, "SSL_CERT_FILE", EQ, "old">>,            \* comment
      <<"malformed">>,                                 \* no "="
      <<"FOO", EQ, "bar">>,                            \* an unrelated key
      <<"SSL_CERT_FILE", EQ, "old">>,
      <<SP, "SSL_CERT_FILE", SP, EQ, "stale">>,
      <<"REQUESTS_CA_BUNDLE", EQ, "old">> }

RECURSIVE LineSeqs(_)
LineSeqs(n) ==
    IF n = 0 THEN {<<>>}
    ELSE LET shorter == LineSeqs(n - 1) IN
         shorter \cup {Append(ls, l) : ls \in {s \in shorter : Len(s) = n - 1}, l \in LineSet}

\* every file of at most MaxLines lines, with and without a final newline
EnvContents ==
    {JoinNL(ls) : ls \in LineSeqs(MaxLines)} \cup {JoinNL(ls) \o <<NL>> : ls \in LineSeqs(MaxLines)}

RECURSIVE ByteSeqs(_)
ByteSeqs(n) ==
    IF n = 0 THEN {<<>>}
    ELSE LET shorter == ByteSeqs(n - 1) IN
         shorter \cup {Append(b, c) : b \in {s \in shorter : Len(s) = n - 1}, c \in {"a", "b"}}

\* the documents the remote API answers with
ResponseDocs ==
    { \* {"choices": [{"message": {"content": "X is"}}], "usage": {"total_tokens": 7}}
      JObj(<<Member(<<"c", "h", "o", "i", "c", "e", "s">>, JArr(<<JObj(<<Member(<<"m", "e", "s", "s", "a", "g", "e">>, JObj(<<Member(<<"c", "o", "n", "t", "e", "n", "t">>, JStr(<<"X", " ", "i", "s">>))>>))>>)>>)), Member(<<"u", "s", "a", "g", "e">>, JObj(<<Member(<<"t", "o", "t", "a", "l", "_", "t", "o", "k", "e", "n", "s">>, JNum(7))>>))>>),
      \* {"error": "invalid api key"}
      JObj(<<Member(<<"e", "r", "r", "o", "r">>, JStr(<<"i", "n", "v", "a", "l", "i", "d", " ", "a", "p", "i", " ", "k", "e", "y">>))>>),
      \* {}
      JObj(<<>>),
      \* {"choices": []}
      JObj(<<Member(<<"c", "h", "o", "i", "c", "e", "s">>, JArr(<<>>))>>),
      \* {"choices": [{}]}
      JObj(<<Member(<<"c", "h", "o", "i", "c", "e", "s">>, JArr(<<JObj(<<>>)>>))>>),
      \* {"choices": [{"message": {"content": ""}}]}
      JObj(<<Member(<<"c", "h", "o", "i", "c", "e", "s">>, JArr(<<JObj(<<Member(<<"m", "e", "s", "s", "a", "g", "e">>, JObj(<<Member(<<"c", "o", "n", "t", "e", "n", "t">>, JStr(<<>>))>>))>>)>>))>>),
      \* {"choices": [{"message": {}, "text": "hi"}]}
      JObj(<<Member(<<"c", "h", "o", "i", "c", "e", "s">>, JArr(<<JObj(<<Member(<<"m", "e", "s", "s", "a", "g", "e">>, JObj(<<>>)), Member(<<"t", "e", "x", "t">>, JStr(<<"h", "i">>))>>)>>))>>),
      \* {"choices": [{"message": {"content": null}}]}
      JObj(<<Member(<<"c", "h", "o", "i", "c", "e", "s">>, JArr(<<JObj(<<Member(<<"m", "e", "s", "s", "a", "g", "e">>, JObj(<<Member(<<"c", "o", "n", "t", "e", "n", "t">>, JNull)>>))>>)>>))>>),
      \* {"choices": null}
      JObj(<<Member(<<"c", "h", "o", "i", "c", "e", "s">>, JNull)>>),
      \* {"choices": [{"message": null}]}
      JObj(<<Member(<<"c", "h", "o", "i", "c", "e", "s">>, JArr(<<JObj(<<Member(<<"m", "e", "s", "s", "a", "g", "e">>, JNull)>>)>>))>>),
      \* {"choices": [{"text": "hi"}]}
      JObj(<<Member(<<"c", "h", "o", "i", "c", "e", "s">>, JArr(<<JObj(<<Member(<<"t", "e", "x", "t">>, JStr(<<"h", "i">>))>>)>>))>>),
      \* {"choices": [7]}
      JObj(<<Member(<<"c", "h", "o", "i", "c", "e", "s">>, JArr(<<JNum(7)>>))>>),
      \* {"output": 1}
      JObj(<<Member(<<"o", "u", "t", "p", "u", "t">>, JNum(1))>>),
      \* [1]
      JArr(<<JNum(1)>>),
      \* "hi"
      JStr(<<"h", "i">>),
      \* 7
      JNum(7),
      \* null
      JNull }

\* bodies that are not JSON
InvalidBodies == {<<>>, <<"<", "h", "t", "m", "l", ">">>, <<"{", "\"", "a", "\"">>}

Bodies == {DumpsCompact(d) : d \in ResponseDocs} \cup InvalidBodies

StatusCodes == {100, 200, 204, 302, 399, 400, 401, 500, 599, 600}

ReasonOf(status) == IF status < 400 THEN <<"O", "K">> ELSE <<"E", "r", "r", "o", "r">>

Nets == {NoReply} \cup {Reply(st, ReasonOf(st), b) : st \in StatusCodes, b \in Bodies}

HI == JStr(<<"H", "i">>)

CallArgs == [model : {JNull, JStr(<<"m">>)}, max_tokens : {JNull, JNum(800)}]

CommandLines == [file : BOOLEAN, prompt : {<<>>, HI.s}]

PromptFiles == {Absent, File(<<" ", "S", "u", "m", "m", "a", "r", "i", "z", "e", " ", "X", "\n">>)}

WebBodies ==
    { JNull,
      JObj(<<Member(K_prompt, HI)>>),
      JObj(<<Member(K_prompt, HI), Member(K_model, JStr(<<"m">>)), Member(K_max_tokens, JNum(5))>>),
      JArr(<<JNum(1)>>) }

Rep(c, n) == [i \in 1..n |-> c]

\* the lengths around the preview limit, and a few short ones
Lengths == {0, 1, 2} \cup ((PREVIEW_LIMIT - 1)..(PREVIEW_LIMIT + MaxExtra))

Fill == {"a", "b"}

\* the number of characters json.dumps adds around the string of an {"index": 0, "data": ...} choice
FALLBACK_OVERHEAD == Len(DumpsCompact(JObj(<<Member(K_index, JNum(0)), Member(K_data, JStr(<<>>))>>)))

Choices ==
    {JObj(<<Member(K_message, JObj(<<Member(K_content, JStr(Rep(c, n)))>>))>>) : c \in Fill, n \in Lengths}
      \cup {JObj(<<Member(K_text, JStr(Rep(c, n)))>>) : c \in Fill, n \in Lengths}
      \cup {JObj(<<Member(K_message, JObj(<<>>)), Member(K_text, JStr(Rep(c, n)))>>) : c \in Fill, n \in Lengths}
      \cup {JObj(<<Member(K_index, JNum(0)), Member(K_data, JStr(Rep(c, n)))>>) : c \in Fill, n \in Lengths}
      \cup {JObj(<<Member(K_index, JNum(0)), Member(K_data, JStr(Rep(c, n - FALLBACK_OVERHEAD)))>>) :
                c \in Fill, n \in {m \in Lengths : m >= FALLBACK_OVERHEAD}}
      \cup { JObj(<<>>),
             JObj(<<Member(K_message, JObj(<<Member(K_content, JNull)>>)), Member(K_text, HI)>>),
             JObj(<<Member(K_message, JNull), Member(K_text, HI)>>),
             JObj(<<Member(K_message, JObj(<<Member(K_content, JArr(<<JNum(1)>>))>>))>>),
             JArr(<<JNum(1)>>),
             HI,
             JNum(7),
             JNull }

(***************************************************************************)
(* The parts of the state a run does not use.                              *)
(***************************************************************************)
NotCalled == [raised |-> FALSE, pending |-> TRUE]

EnvIdle == env = Absent /\ bak = Absent /\ envLog = <<>>

BundleIdle ==
    /\ fs = [p \in FilePaths |-> Absent]
    /\ fs0 = fs
    /\ out_path = OUT
    /\ outbuf = <<>>
    /\ bufsize = 1
    /\ wpc = "idle"

ApiIdle == net = NoReply /\ posted = <<>> /\ result = NotCalled /\ call = [model |-> JNull, max_tokens |-> JNull]

CliIdle ==
    /\ args = [file |-> FALSE, prompt |-> <<>>]
    /\ promptFile = Absent
    /\ prompt = JNull
    /\ outFile = Absent
    /\ canWrite = TRUE
    /\ stdout = <<>>
    /\ stderr = <<>>
    /\ exitStatus = -1
    /\ cpc = "idle"

WebIdle == webBody = JNull /\ webResp = NotCalled

ChoiceIdle == choiceArg = JNull /\ preview = NotCalled

(***************************************************************************)
(* scripts/setup_certs.py: runs of update_env_file.                        *)
(***************************************************************************)
InitEnv ==
    /\ env \in {Absent} \cup {File(d) : d \in EnvContents}
    /\ bak \in {Absent, File(<<"FOO", EQ, "saved", NL>>)}
    /\ envLog = << [env |-> env, bak |-> bak, path |-> ""] >>
    /\ BundleIdle /\ ApiIdle /\ CliIdle /\ WebIdle /\ ChoiceIdle

\* update_env_file(out_bundle_path): backup_env, then the merge and the write
UpdateEnvFile(path) ==
    /\ Len(envLog) <= MaxRuns
    /\ bak' = BackupEnv(env, bak)
    /\ env' = File(MergedContent(env, path))
    /\ envLog' = Append(envLog, [env |-> env', bak |-> bak', path |-> path])
    /\ UNCHANGED <<bundleVars, apiVars, cliVars, webVars, choiceVars>>

NextEnv == \E path \in Paths : UpdateEnvFile(path)

SpecEnv == InitEnv /\ [][NextEnv]_vars

(***************************************************************************)
(* scripts/setup_certs.py: a run of write_combined_bundle.                 *)
(***************************************************************************)
InitBundle ==
    /\ \E pub \in ByteSeqs(MaxBytes) \ {<<>>}, cust \in ByteSeqs(MaxBytes), old \in {Absent, File(<<"b">>)} :
           fs = [p \in FilePaths |-> IF p = CERTIFI THEN File(pub)
                                     ELSE IF p = ZSCALER THEN File(cust) ELSE old]
    /\ fs0 = fs
    /\ out_path \in FilePaths
    /\ outbuf = <<>>
    /\ bufsize \in 1..MaxBuf
    /\ wpc = "start"
    /\ EnvIdle /\ ApiIdle /\ CliIdle /\ WebIdle /\ ChoiceIdle

\* one out.write(data) of write_combined_bundle
OutWrite(data) ==
    LET r == BufferedWrite(fs[out_path].data, outbuf, data, bufsize) IN
    /\ fs' = [fs EXCEPT ![out_path] = File(r.written)]
    /\ outbuf' = r.buf

\* line 50: the three files are opened, `out` last
OpenFiles ==
    /\ wpc = "start"
    /\ fs' = OpenForWrite(fs, out_path)
    /\ wpc' = "opened"
    /\ UNCHANGED <<fs0, out_path, outbuf, bufsize>>
    /\ UNCHANGED <<envVars, apiVars, cliVars, webVars, choiceVars>>

\* line 51: out.write(cf.read())
WritePublic ==
    /\ wpc = "opened"
    /\ OutWrite(ReadAll(fs, CERTIFI))
    /\ wpc' = "public"
    /\ UNCHANGED <<fs0, out_path, bufsize>>
    /\ UNCHANGED <<envVars, apiVars, cliVars, webVars, choiceVars>>

\* line 52: out.write(b"\n")
WriteNewline ==
    /\ wpc = "public"
    /\ OutWrite(<<NL>>)
    /\ wpc' = "newline"
    /\ UNCHANGED <<fs0, out_path, bufsize>>
    /\ UNCHANGED <<envVars, apiVars, cliVars, webVars, choiceVars>>

\* line 53: out.write(zf.read())
WriteCustom ==
    /\ wpc = "newline"
    /\ OutWrite(ReadAll(fs, ZSCALER))
    /\ wpc' = "custom"
    /\ UNCHANGED <<fs0, out_path, bufsize>>
    /\ UNCHANGED <<envVars, apiVars, cliVars, webVars, choiceVars>>

\* the end of the with block: `out` is flushed and closed
CloseFiles ==
    /\ wpc = "custom"
    /\ fs' = [fs EXCEPT ![out_path] = File(fs[out_path].data \o outbuf)]
    /\ outbuf' = <<>>
    /\ wpc' = "done"
    /\ UNCHANGED <<fs0, out_path, bufsize>>
    /\ UNCHANGED <<envVars, apiVars, cliVars, webVars, choiceVars>>

NextBundle == OpenFiles \/ WritePublic \/ WriteNewline \/ WriteCustom \/ CloseFiles

SpecBundle == InitBundle /\ [][NextBundle]_vars

(***************************************************************************)
(* src/groq_client.py: a call of send_chat.                                *)
(***************************************************************************)
InitClient ==
    /\ net \in Nets
    /\ call \in CallArgs
    /\ posted = <<>>
    /\ result = NotCalled
    /\ EnvIdle /\ BundleIdle /\ CliIdle /\ WebIdle /\ ChoiceIdle

\* the effect of a call of send_chat on the state
Sent(sent) ==
    /\ posted' = posted \o sent.posts
    /\ result' = sent.outcome

\* send_chat(messages, model=call.model, max_tokens=call.max_tokens); the
\* temperature is the float default of line 53, 0.0
SendChatCall ==
    /\ result = NotCalled
    /\ Sent(SendChat(net, BuildMessages(HI), call.model, JFloat("0.0"), call.max_tokens))
    /\ UNCHANGED <<net, call>>
    /\ UNCHANGED <<envVars, bundleVars, cliVars, webVars, choiceVars>>

NextClient == SendChatCall

SpecClient == InitClient /\ [][NextClient]_vars

(***************************************************************************)
(* src/main.py: a run of main().                                           *)
(***************************************************************************)
InitCli ==
    /\ args \in CommandLines
    /\ promptFile \in PromptFiles
    /\ prompt = JNull
    /\ outFile \in {Absent}
    /\ canWrite \in BOOLEAN
    /\ stdout = <<>>
    /\ stderr = <<>>
    /\ exitStatus = -1
    /\ cpc = "start"
    /\ net \in Nets
    /\ posted = <<>>
    /\ result = NotCalled
    /\ call = [model |-> JNull, max_tokens |-> JNull]
    /\ EnvIdle /\ BundleIdle /\ WebIdle /\ ChoiceIdle

\* lines 32-40: parse_args; --prompt and --file are mutually exclusive, and
\* argparse answers a command line with both by a usage error on standard
\* error and exit status 2
ParseArgs ==
    /\ cpc = "start"
    /\ IF args.file /\ args.prompt # <<>>
       THEN /\ stderr' = Append(stderr, Line("usage error", JStr(<<"not allowed with argument">>)))
            /\ exitStatus' = 2
            /\ cpc' = "exited"
       ELSE /\ cpc' = "parsed"
            /\ UNCHANGED <<stderr, exitStatus>>
    /\ UNCHANGED <<args, promptFile, prompt, outFile, canWrite, stdout>>
    /\ UNCHANGED <<envVars, bundleVars, apiVars, webVars, choiceVars>>

\* lines 42-45: the prompt is read; a failure to read the file is not caught,
\* and the interpreter writes the traceback to standard error
ReadPrompt ==
    /\ cpc = "parsed"
    /\ IF args.file /\ ~promptFile.exists
       THEN /\ stderr' = Append(stderr, Line("Traceback", JStr(<<"FileNotFoundError">>)))
            /\ exitStatus' = 1
            /\ cpc' = "crashed"
            /\ UNCHANGED prompt
       ELSE /\ prompt' = IF args.file THEN JStr(Strip(promptFile.data))
                         ELSE IF args.prompt # <<>> THEN JStr(args.prompt)
                         ELSE JStr(DEFAULT_PROMPT)
            /\ cpc' = "ready"
            /\ UNCHANGED <<stderr, exitStatus>>
    /\ UNCHANGED <<args, promptFile, outFile, canWrite, stdout>>
    /\ UNCHANGED <<envVars, bundleVars, apiVars, webVars, choiceVars>>

\* lines 55-57: the exception is written and the process exits with status 2
ExitOnError(out, exc) ==
    /\ stdout' = Append(out, Line("Error:", JStr(<<exc>>)))
    /\ exitStatus' = 2
    /\ cpc' = "exited"

\* lines 50-52 and 55-57: send_chat is called; what it raises is caught
CallSendChat ==
    /\ cpc = "ready"
    /\ Sent(SendChat(net, BuildMessages(prompt), JNull, DEFAULT_TEMPERATURE, DEFAULT_MAX_TOKENS))
    /\ IF result'.raised
       THEN ExitOnError(Append(stdout, Line("Sending request to Groq...", JNull)), result'.exc)
       ELSE /\ stdout' = Append(stdout, Line("Sending request to Groq...", JNull))
            /\ cpc' = "received"
            /\ UNCHANGED exitStatus
    /\ UNCHANGED <<args, promptFile, prompt, outFile, canWrite, stderr, net, call>>
    /\ UNCHANGED <<envVars, bundleVars, webVars, choiceVars>>

\* the effect of process_and_save on the state
Saved(r) ==
    /\ outFile' = r.file
    /\ IF r.raised THEN ExitOnError(stdout \o r.out, r.exc)
       ELSE /\ stdout' = stdout \o r.out
            /\ exitStatus' = 0
            /\ cpc' = "exited"

\* lines 53-57: process_and_save is called; what it raises is caught
SaveResponse ==
    /\ cpc = "received"
    /\ Saved(ProcessAndSave(result.v, outFile, canWrite))
    /\ UNCHANGED <<args, promptFile, prompt, canWrite, stderr>>
    /\ UNCHANGED <<envVars, bundleVars, apiVars, webVars, choiceVars>>

NextCli == ParseArgs \/ ReadPrompt \/ CallSendChat \/ SaveResponse

SpecCli == InitCli /\ [][NextCli]_vars

(***************************************************************************)
(* src/webapp.py: one request.                                             *)
(***************************************************************************)
InitWeb ==
    /\ webBody \in WebBodies
    /\ webResp = NotCalled
    /\ net \in Nets
    /\ posted = <<>>
    /\ result = NotCalled
    /\ call = [model |-> JNull, max_tokens |-> JNull]
    /\ EnvIdle /\ BundleIdle /\ CliIdle /\ ChoiceIdle

\* GET /
GetIndex ==
    /\ webResp = NotCalled
    /\ webBody = JNull
    /\ webResp' = [status |-> 200, service |-> "smart-book-gist"]
    /\ UNCHANGED <<webBody, envVars, bundleVars, apiVars, cliVars, choiceVars>>

\* GET /health
GetHealth ==
    /\ webResp = NotCalled
    /\ webBody = JNull
    /\ webResp' = [status |-> 200, text |-> ""]
    /\ UNCHANGED <<webBody, envVars, bundleVars, apiVars, cliVars, choiceVars>>

\* the effect of summarize() on the state
Answered(r) ==
    /\ posted' = posted \o r.posts
    /\ webResp' = r.response
    /\ result' = IF r.posts = <<>> THEN result ELSE r.outcome

\* POST /summarize
PostSummarize ==
    /\ webResp = NotCalled
    /\ Answered(Summarize(webBody, net))
    /\ UNCHANGED <<webBody, net, call, envVars, bundleVars, cliVars, choiceVars>>

NextWeb == GetIndex \/ GetHealth \/ PostSummarize

SpecWeb == InitWeb /\ [][NextWeb]_vars

(***************************************************************************)
(* src/processor.py: a call of summarize_choice.                           *)
(***************************************************************************)
InitChoice ==
    /\ choiceArg \in Choices
    /\ preview = NotCalled
    /\ EnvIdle /\ BundleIdle /\ ApiIdle /\ CliIdle /\ WebIdle

ApplySummarizeChoice ==
    /\ preview = NotCalled
    /\ preview' = SummarizeChoice(choiceArg)
    /\ UNCHANGED <<choiceArg, envVars, bundleVars, apiVars, cliVars, webVars>>

NextChoice == ApplySummarizeChoice

SpecChoice == InitChoice /\ [][NextChoice]_vars

(***************************************************************************)
(* Properties of update_env_file.                                          *)
(***************************************************************************)
LinesOf(e) == IF e.exists THEN SplitLines(e.data) ELSE <<>>

IsBlank(line) == Strip(line) = <<>>

IsComment(line) == ~IsBlank(line) /\ Head(Strip(line)) = HASH

\* the line is a KEY=VALUE line whose key is `key`
Defines(line, key) ==
    /\ ~IsBlank(line)
    /\ ~IsComment(line)
    /\ Contains(line, EQ)
    /\ Strip(KeyPart(line)) = <<key>>

DefinesManaged(line) == Defines(line, ManagedKeys[1]) \/ Defines(line, ManagedKeys[2])

\* a non-managed, non-blank, non-comment line
IsUserLine(line) == ~IsBlank(line) /\ ~IsComment(line) /\ ~DefinesManaged(line)

\* the updates that have run: update r took envLog[r] to envLog[r + 1]
Updates == 1..(Len(envLog) - 1)

KeyIndexes(lines, key) == {i \in 1..Len(lines) : Defines(lines[i], key)}

\* C1 (as claimed): after update_env_file the user lines are the original ones,
\* unchanged and in order, and each managed key is defined on exactly one line,
\* with the bundle path as its value.
C1_ExactlyOnce ==
    \A r \in Updates :
        LET pre == LinesOf(envLog[r].env)
            post == LinesOf(envLog[r + 1].env)
            path == envLog[r + 1].path
        IN  /\ Filter(post, IsUserLine) = Filter(pre, IsUserLine)
            /\ \A n \in 1..Len(ManagedKeys) :
                   /\ Cardinality(KeyIndexes(post, ManagedKeys[n])) = 1
                   /\ \A i \in KeyIndexes(post, ManagedKeys[n]) : ValuePart(post[i]) = <<path>>

\* C2 (as claimed): from any environment file, present or absent, with no
\* backup yet, two updates leave the backup equal to the file's state before
\* the first update and never to its state after it; and an existing backup
\* is never changed.
C2_BackupIsStateBeforeFirst ==
    /\ (Len(envLog) = 3 /\ ~envLog[1].bak.exists) =>
           /\ envLog[3].bak = envLog[1].env
           /\ envLog[3].bak # envLog[2].env
    /\ \A r \in Updates : envLog[r].bak.exists => envLog[r + 1].bak = envLog[r].bak

\* C2 (amended): when the environment file is present and there is no backup,
\* the first update copies the file to the backup and every later update leaves
\* the backup equal to the file's state before the first update; when the file
\* is absent the first update makes no backup and the second one backs up the
\* file the first update wrote; an existing backup is never changed.
C2_BackupOnFirstWrite ==
    /\ \A r \in Updates :
           /\ envLog[r].bak.exists => envLog[r + 1].bak = envLog[r].bak
           /\ (~envLog[r].bak.exists /\ envLog[r].env.exists) => envLog[r + 1].bak = envLog[r].env
           /\ (~envLog[r].bak.exists /\ ~envLog[r].env.exists) => ~envLog[r + 1].bak.exists
    /\ (Len(envLog) >= 3 /\ ~envLog[1].bak.exists /\ envLog[1].env.exists) =>
           envLog[Len(envLog)].bak = envLog[1].env
    /\ (Len(envLog) >= 3 /\ ~envLog[1].bak.exists /\ ~envLog[1].env.exists) =>
           envLog[Len(envLog)].bak = envLog[2].env

\* two updates of a present file with no backup: the backup is the original,
\* which the first update changed
C2_Witness ==
    /\ Len(envLog) = 3
    /\ envLog[1].env.exists
    /\ ~envLog[1].bak.exists
    /\ envLog[2].env # envLog[1].env
    /\ envLog[3].env # envLog[2].env
    /\ envLog[3].bak = envLog[1].env

\* C10 (as claimed): of the lines that define a duplicated managed key only the
\* first gets the new value; every later one is left as it was.
C10_OnlyFirstReplaced ==
    \A r \in Updates :
        LET pre == LinesOf(envLog[r].env)
            post == LinesOf(envLog[r + 1].env)
            path == envLog[r + 1].path
        IN  \A n \in 1..Len(ManagedKeys) :
                LET key == ManagedKeys[n]
                    ix == KeyIndexes(pre, key)
                IN  Cardinality(ix) > 1 =>
                        \A i \in ix :
                            IF \A j \in ix : i <= j
                            THEN post[i] = <<key, EQ, path>>
                            ELSE post[i] = pre[i]

\* C10 (amended): when a managed key is defined on more than one line, every
\* one of those lines, the first and the later duplicates alike, is replaced
\* by KEY=bundle_path, at its place in the file.
C10_EveryOccurrenceReplaced ==
    \A r \in Updates :
        LET pre == LinesOf(envLog[r].env)
            post == LinesOf(envLog[r + 1].env)
            path == envLog[r + 1].path
        IN  \A n \in 1..Len(ManagedKeys) :
                LET key == ManagedKeys[n]
                    ix == KeyIndexes(pre, key)
                IN  Cardinality(ix) > 1 =>
                        /\ Len(post) >= Len(pre)
                        /\ \A i \in ix : post[i] = <<key, EQ, path>>
                        /\ KeyIndexes(post, key) = ix

\* an update of a file with two lines for one key, the later one stale
C10_Witness ==
    \E r \in Updates :
        LET pre == LinesOf(envLog[r].env)
            post == LinesOf(envLog[r + 1].env)
            ix == KeyIndexes(pre, ManagedKeys[1])
        IN  /\ Cardinality(ix) > 1
            /\ \E i \in ix, j \in ix : i < j /\ post[j] # pre[j] /\ post[j] = post[i]

(***************************************************************************)
(* Properties of write_combined_bundle.                                    *)
(***************************************************************************)
CombinedBundle == fs0[CERTIFI].data \o <<NL>> \o fs0[ZSCALER].data

\* C9 (as claimed): whatever the output path is, the custom certificate and the
\* public bundle included, the output file ends up as the public bundle's
\* bytes, a newline, and the custom certificate's bytes as they were before
\* the call.
C9_ByteExact == wpc = "done" => fs[out_path] = File(CombinedBundle)

(***************************************************************************)
(* Properties of send_chat.                                                *)
(***************************************************************************)
ApiErrorWith(r, detail) ==
    r.raised /\ r.exc = "RuntimeError" /\ r.msg.what = "Groq API error" /\ r.msg.detail = detail

DecodeErrorWith(r, why, at, raw) ==
    /\ r.raised
    /\ r.exc = "RuntimeError"
    /\ r.msg.what = "Failed to parse Groq response as JSON"
    /\ r.msg.why = why
    /\ r.msg.at = at
    /\ r.msg.raw = raw

\* a direct call of send_chat has returned or raised
Called == call \in CallArgs /\ result # NotCalled

\* C5 (as claimed): a reply whose status is not 2xx raises the API error with
\* the parsed body, or the raw text when the body is not JSON; a 2xx reply whose
\* body is not JSON raises the decode error with the reason and the raw text;
\* any other reply is returned parsed; and one POST is sent.
C5_OnlySuccessRange ==
    (Called /\ ~net.fails) =>
        LET doc == Loads(net.text) IN
        /\ Len(posted) = 1
        /\ IF ~(200 <= net.status /\ net.status < 300)
           THEN ApiErrorWith(result, IF doc.ok THEN doc.v ELSE JStr(net.text))
           ELSE IF ~doc.ok THEN DecodeErrorWith(result, doc.why, doc.at, net.text)
           ELSE result = Returned(doc.v)

\* C5 (amended): a reply whose status is an error status, 400 to 599, raises
\* the API error with the parsed body, or the raw text when the body is not
\* JSON, or the status code and reason when the body is empty; a reply with any
\* other status (1xx, 2xx, 3xx, 600) whose body is not JSON raises the decode
\* error with the reason and the raw text; any other reply is returned parsed
\* and unmodified; and exactly one POST is sent per call, whatever the outcome.
C5_Classification ==
    Called =>
        LET doc == Loads(net.text) IN
        /\ Len(posted) = 1
        /\ net.fails => result = Raised("RequestException")
        /\ ~net.fails =>
               IF 400 <= net.status /\ net.status < 600
               THEN ApiErrorWith(result, IF doc.ok THEN doc.v
                                         ELSE IF net.text # <<>> THEN JStr(net.text)
                                         ELSE JStr(Digits(net.status) \o <<" ">> \o net.reason))
               ELSE IF ~doc.ok THEN DecodeErrorWith(result, doc.why, doc.at, net.text)
               ELSE result = Returned(doc.v)

\* a 3xx reply with a JSON object as its body has been returned to the caller
C5_Witness ==
    /\ Called
    /\ ~net.fails
    /\ 300 <= net.status /\ net.status < 400
    /\ ~result.raised
    /\ IsDict(result.v)
    /\ Len(posted) = 1

(***************************************************************************)
(* Properties of main().                                                   *)
(***************************************************************************)
Terminated == cpc \in {"exited", "crashed"}

PromptReadable == ~args.file \/ promptFile.exists

\* the last thing written is the error: by main() on standard output, or by
\* argparse on standard error
ErrorPrinted ==
    \/ stdout # <<>> /\ stdout[Len(stdout)].line = "Error:"
    \/ stdout = <<>> /\ stderr # <<>> /\ stderr[Len(stderr)].line = "usage error"

SendSucceeded == result # NotCalled /\ ~result.raised

\* C3 (as claimed): main() ends with status 0 when the request and the save
\* both succeed and with status 2, the error written, on every failure: a
\* prompt file that cannot be read, a failure of send_chat, a failure to save;
\* it never ends with another status or an unhandled exception.
C3_ExitStatus ==
    Terminated =>
        /\ cpc = "exited"
        /\ IF PromptReadable /\ SendSucceeded /\ outFile.exists
           THEN exitStatus = 0
           ELSE exitStatus = 2 /\ ErrorPrinted

\* C6 (as claimed): for every document a 200 reply carries, an object or not,
\* process_and_save writes the summary (the type of a document that is not an
\* object) and then the whole document to the output path, so that the file
\* parses back to the document; it never stops before the file is written.
C6_SavesEveryDocument ==
    (cpc = "exited" /\ SendSucceeded /\ net.status = 200 /\ canWrite) =>
        /\ outFile.exists
        /\ Loads(outFile.data).ok
        /\ Loads(outFile.data).v = result.v
        /\ \E i \in 1..Len(stdout) :
               stdout[i].line = (IF IsDict(result.v) THEN "keys" ELSE "not an object")
        /\ stdout[Len(stdout)].line = "end"

(***************************************************************************)
(* Properties of POST /summarize.                                          *)
(***************************************************************************)
\* the first choice's message content, when the document has one
HasFirstContent(doc) ==
    /\ IsDict(doc)
    /\ HasKey(doc, K_choices)
    /\ IsList(Get(doc, K_choices, JNull))
    /\ Get(doc, K_choices, JNull).a # <<>>
    /\ IsDict(Get(doc, K_choices, JNull).a[1])
    /\ IsDict(Get(Get(doc, K_choices, JNull).a[1], K_message, JNull))
    /\ Truthy(Get(Get(Get(doc, K_choices, JNull).a[1], K_message, JNull), K_content, JNull))

FirstContentOf(doc) == Get(Get(Get(doc, K_choices, JNull).a[1], K_message, JNull), K_content, JNull)

\* C4 (as claimed): whenever send_chat returns a document (here: a JSON object
\* carried by a 200 reply) the route answers with a success status and
\* {prompt, gist}, gist being the first choice's message content when there is
\* one and the document itself otherwise; the status 500 is answered only when
\* send_chat fails.
C4_GistOrRawResponse ==
    (webResp # NotCalled /\ posted # <<>>) =>
        IF result.raised
        THEN webResp.status = 500 /\ webResp.error = "Failed to call Groq API"
        ELSE (net.status = 200 /\ IsDict(result.v)) =>
             /\ webResp.status = 200
             /\ webResp.prompt = Get(IF Truthy(webBody) THEN webBody ELSE JObj(<<>>), K_prompt, NO_PROMPT)
             /\ webResp.gist = IF HasFirstContent(result.v) THEN FirstContentOf(result.v) ELSE result.v

(***************************************************************************)
(* Properties of summarize_choice.                                         *)
(***************************************************************************)
HasMessageDict(c) == IsDict(c) /\ IsDict(Get(c, K_message, JNull))

\* the text the extraction strategy of lines 12-18 supplies, before any cut
SuppliedText(c) ==
    IF HasMessageDict(c) THEN Get(Get(c, K_message, JNull), K_content, JStr(<<>>))
    ELSE IF IsDict(c) /\ HasKey(c, K_text) THEN Get(c, K_text, JNull)
    ELSE JStr(DumpsCompact(c))

\* the text cut to the limit and marked with one ellipsis when it was cut
Marked(s) == IF Len(s) <= PREVIEW_LIMIT THEN s ELSE SubSeq(s, 1, PREVIEW_LIMIT) \o <<ELLIPSIS>>

\* C7 (as claimed): whichever strategy supplies the text, the preview is the
\* text itself when it has at most 400 characters and otherwise its first 400
\* characters followed by one ellipsis.
C7_TruncatedPreviewMarked ==
    (preview # NotCalled /\ IsDict(choiceArg) /\ IsStr(SuppliedText(choiceArg))) =>
        preview = Returned(JStr(Marked(SuppliedText(choiceArg).s)))

\* the text of the ordered chain of the claim: the message's content when the
\* choice has one, else the text field when it has one, else the JSON rendering
ChainText(c) ==
    IF HasMessageDict(c) /\ IsStr(Get(Get(c, K_message, JNull), K_content, JNull))
    THEN Get(Get(c, K_message, JNull), K_content, JNull).s
    ELSE IF IsDict(c) /\ IsStr(Get(c, K_text, JNull)) THEN Get(c, K_text, JNull).s
    ELSE DumpsCompact(c)

\* a choice of the documented shape: an object whose message content and text
\* field, where present, are strings or null
DocumentedShape(c) ==
    /\ IsDict(c)
    /\ HasMessageDict(c) =>
           (IsStr(Get(Get(c, K_message, JNull), K_content, JNull))
              \/ Get(Get(c, K_message, JNull), K_content, JNull) = JNull)
    /\ IsStr(Get(c, K_text, JNull)) \/ Get(c, K_text, JNull) = JNull

\* C8 (as claimed): the preview is cut from the message's content when the
\* choice has one, else from its text field when it has one, else from the JSON
\* rendering of the choice; so a choice whose message has no content, or a null
\* one, and which has a text field gives the text field; and a string is
\* returned for every choice of the documented shape.
C8_OrderedFallback ==
    (preview # NotCalled /\ DocumentedShape(choiceArg)) =>
        /\ ~preview.raised
        /\ IsStr(preview.v)
        /\ Prefix(preview.v.s, PREVIEW_LIMIT) = Prefix(ChainText(choiceArg), PREVIEW_LIMIT)

====
